---- MODULE Spec2Model ----
(***************************************************************************)
(* Drawdown analysis of a storage time series (src/Drawdown.py).           *)
(*                                                                         *)
(* Values are modelled in hundredths, so that the sentinel 9.99 is the     *)
(* integer 999 and the storage values 0, 2, 5, 10 are 0, 200, 500, 1000.   *)
(* Arrays are TLA+ sequences; all locations and indexes are 0-based as in  *)
(* the source, and At(a, k) reads a[k].  raw is the one-dimensional array  *)
(* of storage values the analysis is constructed from.  An exception       *)
(* raised by the source is the control state "raised".                     *)
(***************************************************************************)
EXTENDS Integers, Sequences, FiniteSets, TLC

\* Longest raw input sequence.
MaxLen == 6

\* The sentinel 9.99 (in hundredths).
Sentinel == 999

\* Storage values raw inputs are drawn from (hundredths): 0, 2, 5, 9.99, 10.
Vals == {0, 200, 500, 999, 1000}

VARIABLES raw, S, cache_down_locs, cache_down_vals, cache_up_locs,
          cache_up_vals, drawdowns, n, loop_i, pc, slots, pending

vars == <<raw, S, cache_down_locs, cache_down_vals, cache_up_locs,
          cache_up_vals, drawdowns, n, loop_i, pc, slots, pending>>

----------------------------------------------------------------------------
\* Array helpers with the semantics of Python / numpy.

At(a, k) == a[k + 1]

InRange(a, k) == k >= 0 /\ k < Len(a)

SetMin(T) == CHOOSE x \in T : \A y \in T : x <= y

SetMax(T) == CHOOSE x \in T : \A y \in T : y <= x

PyMin(a, b) == IF a <= b THEN a ELSE b

\* a[lo:hi] for 0 <= lo, 0 <= hi: out-of-range bounds are clipped.
PySlice(a, lo, hi) == SubSeq(a, lo + 1, PyMin(hi, Len(a)))

\* The elements of a finite set of integers in increasing order (np.where).
RECURSIVE Sorted(_)
Sorted(T) == IF T = {} THEN << >> ELSE <<SetMin(T)>> \o Sorted(T \ {SetMin(T)})

\* np.argmin over a non-empty array: the first index of the minimum.
argmin(a) == SetMin({k \in 0..(Len(a) - 1) : \A j \in 0..(Len(a) - 1) : At(a, k) <= At(a, j)})

\* a[idx] for an index array idx (fancy indexing).
Take(a, idx) == [k \in 1..Len(idx) |-> At(a, idx[k])] \o << >>

----------------------------------------------------------------------------
\* Variant of Prepend that inserts the sentinel without looking at the first
\* element.
Prepend_unconditional(s) == <<Sentinel>> \o s

\* __init__, lines 59-60: the sentinel is inserted unless the series starts
\* with it.
Prepend(s) == IF At(s, 0) # Sentinel THEN <<Sentinel>> \o s ELSE s

\* slope(): first difference of the series.
slope(s) ==
    IF Len(s) < 2 THEN << >>
    ELSE [t \in 1..(Len(s) - 1) |-> s[t + 1] - s[t]] \o << >>

\* (slope() > 0).astype(int)
increasing(s) ==
    LET sl == slope(s)
    IN  [t \in 1..Len(sl) |-> IF sl[t] > 0 THEN 1 ELSE 0] \o << >>

\* rev(): difference of the increasing indicator.
rev(s) ==
    LET inc == increasing(s)
    IN  IF Len(inc) < 2 THEN << >>
        ELSE [t \in 1..(Len(inc) - 1) |-> inc[t + 1] - inc[t]] \o << >>

\* Variant of down_locs that places each true peak two locations after its
\* place in rev() instead of one.
down_locs_two_after(s) ==
    LET r == rev(s)
        w == Sorted({t \in 0..(Len(r) - 1) : At(r, t) < 0})
    IN  [k \in 1..(Len(w) + 1) |-> IF k = 1 THEN 1 ELSE w[k - 1] + 2] \o << >>

\* down_locs(): 0 stacked before the places where rev() < 0, all plus one.
down_locs(s) ==
    LET r == rev(s)
        w == Sorted({t \in 0..(Len(r) - 1) : At(r, t) < 0})
    IN  [k \in 1..(Len(w) + 1) |-> (IF k = 1 THEN 0 ELSE w[k - 1]) + 1] \o << >>

\* up_locs(): the places where rev() > 0, plus one.
up_locs(s) ==
    LET r == rev(s)
        w == Sorted({t \in 0..(Len(r) - 1) : At(r, t) > 0})
    IN  [k \in 1..Len(w) |-> w[k] + 1] \o << >>

\* S[locs] raises IndexError when a location is out of range.
IndexRaises(s, locs) == \E k \in 1..Len(locs) : ~InRange(s, locs[k])

down_vals(s) == Take(s, down_locs(s))

up_vals(s) == Take(s, up_locs(s))

----------------------------------------------------------------------------
Inputs == UNION {[1..len -> Vals] : len \in 1..MaxLen}

Init ==
    /\ raw \in Inputs
    /\ S = << >>
    /\ cache_down_locs = << >>
    /\ cache_down_vals = << >>
    /\ cache_up_locs = << >>
    /\ cache_up_vals = << >>
    /\ drawdowns = << >>
    /\ n = 0
    /\ loop_i = 0
    /\ pc = "new"
    /\ slots = << >>
    /\ pending = {}

\* Drawdown(data=raw): the series and the cached extrema arrays.
Construct ==
    /\ pc = "new"
    /\ S' = Prepend(raw)
    /\ IF IndexRaises(S', down_locs(S'))
       THEN /\ pc' = "raised"
            /\ cache_down_locs' = down_locs(S')
            /\ UNCHANGED <<cache_down_vals, cache_up_locs, cache_up_vals>>
       ELSE /\ pc' = "built"
            /\ cache_down_locs' = down_locs(S')
            /\ cache_down_vals' = down_vals(S')
            /\ cache_up_locs' = up_locs(S')
            /\ cache_up_vals' = up_vals(S')
    /\ UNCHANGED <<raw, drawdowns, n, loop_i, slots, pending>>

----------------------------------------------------------------------------
\* find_start(i), lines 251-278: the start before the zero rule. The lowest
\* valley among up_vals[idx_peak:i] when an earlier peak is >= this one,
\* location 0 otherwise.
provisional_start(i) ==
    LET higher   == {j \in 0..(i - 1) : At(cache_down_vals, j) >= At(cache_down_vals, i)}
        idx_peak == SetMax(higher)
        valleys  == PySlice(cache_up_vals, idx_peak, i)
        idx_up   == idx_peak + argmin(valleys)
    IN  IF higher = {} THEN [raised |-> FALSE, loc |-> 0]
        ELSE IF valleys = << >> \/ ~InRange(cache_up_locs, idx_up)
             THEN [raised |-> TRUE, loc |-> 0]
             ELSE [raised |-> FALSE, loc |-> At(cache_up_locs, idx_up)]

\* Variant of start_zero_rule whose window starts one location too late.
start_zero_rule_skipping_first(start_loc, peak_loc) ==
    LET check == {k \in (start_loc + 2)..(peak_loc - 1) : InRange(S, k) /\ At(S, k) = 0}
        zeros == {k \in start_loc..(peak_loc - 1) : InRange(S, k) /\ At(S, k) = 0}
    IN  IF check # {} THEN SetMax(zeros) ELSE start_loc

\* find_start(i), lines 283-294: the start moves to the rightmost zero of
\* S[start_loc:peak_loc] when S[start_loc+1:peak_loc] holds a zero.
start_zero_rule(start_loc, peak_loc) ==
    LET check == {k \in (start_loc + 1)..(peak_loc - 1) : InRange(S, k) /\ At(S, k) = 0}
        zeros == {k \in start_loc..(peak_loc - 1) : InRange(S, k) /\ At(S, k) = 0}
    IN  IF check # {} THEN SetMax(zeros) ELSE start_loc

find_start(i) ==
    LET p         == provisional_start(i)
        start_loc == start_zero_rule(p.loc, At(cache_down_locs, i))
    IN  IF p.raised \/ ~InRange(S, start_loc)
        THEN [raised |-> TRUE, loc |-> 0, val |-> 0]
        ELSE [raised |-> FALSE, loc |-> start_loc, val |-> At(S, start_loc)]

\* find_end(i), lines 307-333: the end before the zero rule. The lowest
\* valley among up_vals[i:idx_peak] when a later peak is >= this one, the
\* last location of S otherwise.
provisional_end(i) ==
    LET later    == {k \in (i + 1)..(Len(cache_down_vals) - 1) :
                        At(cache_down_vals, k) >= At(cache_down_vals, i)}
        idx_peak == SetMin(later)
        valleys  == PySlice(cache_up_vals, i, idx_peak)
        idx_up   == i + argmin(valleys)
    IN  IF later = {} THEN [raised |-> FALSE, loc |-> Len(S) - 1]
        ELSE IF valleys = << >> \/ ~InRange(cache_up_locs, idx_up)
             THEN [raised |-> TRUE, loc |-> 0]
             ELSE [raised |-> FALSE, loc |-> At(cache_up_locs, idx_up)]

\* The zeros of S[peak_loc+1:end_loc], as locations of S (line 340).
zeros_before(i, end_loc) ==
    {k \in (At(cache_down_locs, i) + 1)..(end_loc - 1) : InRange(S, k) /\ At(S, k) = 0}

\* find_end(i), lines 340-355: nearest_zero_idx is a location of S and is
\* used as an index of the peak array _down_locs.
zero_rule(i, end_loc) ==
    LET nearest_zero_idx == SetMin(zeros_before(i, end_loc))
        looked_up        == At(cache_down_locs, nearest_zero_idx)
        nearest_zero_loc == IF looked_up > Len(S) - 1 THEN Len(S) - 1 ELSE looked_up
    IN  IF ~InRange(cache_down_locs, nearest_zero_idx)
        THEN [raised |-> TRUE, loc |-> 0]
        ELSE [raised |-> FALSE,
              loc |-> IF nearest_zero_loc < end_loc THEN nearest_zero_loc ELSE end_loc]

\* find_end(i), lines 360-381: without a zero, the location of the smallest
\* value of up_vals[i:end_loc] when it lies before end_loc.
minimum_rule(i, end_loc) ==
    LET valleys             == PySlice(cache_up_vals, i, end_loc)
        nearest_minimum_idx == i + argmin(valleys)
        looked_up           == At(cache_up_locs, nearest_minimum_idx)
        nearest_minimum_loc == IF looked_up > Len(S) - 1 THEN Len(S) - 1 ELSE looked_up
    IN  IF valleys = << >> \/ ~InRange(cache_up_locs, nearest_minimum_idx)
        THEN [raised |-> TRUE, loc |-> 0]
        ELSE [raised |-> FALSE,
              loc |-> IF nearest_minimum_loc < end_loc THEN nearest_minimum_loc ELSE end_loc]

find_end(i) ==
    LET p == provisional_end(i)
        r == IF zeros_before(i, p.loc) # {} THEN zero_rule(i, p.loc)
                                           ELSE minimum_rule(i, p.loc)
    IN  IF p.raised THEN [raised |-> TRUE, loc |-> 0, val |-> 0]
        ELSE IF r.raised \/ ~InRange(S, r.loc) THEN [raised |-> TRUE, loc |-> 0, val |-> 0]
        ELSE [raised |-> FALSE, loc |-> r.loc, val |-> At(S, r.loc)]

----------------------------------------------------------------------------
\* find_drawdown(i), lines 125-156: the locations the classifier searches.

\* np.where(S[idx_peak:] <= end_val), as locations of S.
right_candidates(idx_peak, end_val) ==
    {k \in idx_peak..(Len(S) - 1) : At(S, k) <= end_val}

\* np.where(S[:idx_peak] <= start_val).
left_candidates(idx_peak, start_val) ==
    {k \in 0..(idx_peak - 1) : InRange(S, k) /\ At(S, k) <= start_val}

\* Variant of forced_val that keeps the other limb's value.
forced_val_other_limb(is_filling, start_val, end_val) ==
    IF is_filling THEN end_val ELSE start_val

\* Lines 125-149: the value both limbs end at. A filling drawdown takes its
\* start_val for end_val, a draining one its end_val for start_val.
forced_val(is_filling, start_val, end_val) ==
    IF is_filling THEN start_val ELSE end_val

\* Whether find_drawdown(i) raises (IndexError, or ValueError for a minimum,
\* maximum or argmin over nothing).
find_drawdown_raises(i) ==
    LET s == find_start(i)
        e == find_end(i)
        idx_peak == At(cache_down_locs, i)
        filling  == At(cache_down_vals, i) - s.val
        draining == At(cache_down_vals, i) - e.val
    IN  \/ s.raised
        \/ e.raised
        \/ IF PyMin(filling, draining) = filling
           THEN right_candidates(idx_peak, forced_val(TRUE, s.val, e.val)) = {}
           ELSE left_candidates(idx_peak, forced_val(FALSE, s.val, e.val)) = {}

\* find_drawdown(i): the dictionary it returns when it does not raise.
find_drawdown(i) ==
    LET peak_loc   == At(cache_down_locs, i)
        peak_val   == At(cache_down_vals, i)
        s          == find_start(i)
        e          == find_end(i)
        filling    == peak_val - s.val
        draining   == peak_val - e.val
        magnitude  == PyMin(filling, draining)
        is_filling == magnitude = filling
        start_val  == IF is_filling THEN s.val ELSE forced_val(FALSE, s.val, e.val)
        end_val    == IF is_filling THEN forced_val(TRUE, s.val, e.val) ELSE e.val
        end_loc    == IF is_filling THEN SetMin(right_candidates(peak_loc, end_val))
                                    ELSE e.loc
        start_loc  == IF is_filling THEN s.loc
                                    ELSE SetMax(left_candidates(peak_loc, start_val))
    IN  [i         |-> i,
         peak_loc  |-> peak_loc,
         peak_val  |-> peak_val,
         start_loc |-> start_loc,
         start_val |-> start_val,
         end_loc   |-> end_loc,
         end_val   |-> end_val,
         filling   |-> filling,
         draining  |-> draining,
         magnitude |-> magnitude,
         type      |-> IF is_filling THEN "filling" ELSE "draining",
         data      |-> PySlice(S, start_loc, end_loc + 1),
         duration  |-> end_loc - start_loc]

----------------------------------------------------------------------------
\* make_drawdowns(): n and the empty list, then one find_drawdown(i) per
\* iteration of the loop, then the data frame.

make_drawdowns ==
    /\ pc = "built"
    /\ n' = PyMin(Len(cache_down_vals), Len(cache_up_vals))
    /\ drawdowns' = << >>
    /\ loop_i' = 1
    /\ pc' = "loop"
    /\ UNCHANGED <<raw, S, cache_down_locs, cache_down_vals, cache_up_locs,
                   cache_up_vals, slots, pending>>

loop_body ==
    /\ pc = "loop"
    /\ loop_i < n
    /\ IF find_drawdown_raises(loop_i)
       THEN /\ pc' = "raised"
            /\ UNCHANGED <<drawdowns, loop_i>>
       ELSE /\ drawdowns' = Append(drawdowns, find_drawdown(loop_i))
            /\ loop_i' = loop_i + 1
            /\ pc' = "loop"
    /\ UNCHANGED <<raw, S, cache_down_locs, cache_down_vals, cache_up_locs,
                   cache_up_vals, n, slots, pending>>

loop_exit ==
    /\ pc = "loop"
    /\ loop_i >= n
    /\ pc' = "done"
    /\ UNCHANGED <<raw, S, cache_down_locs, cache_down_vals, cache_up_locs,
                   cache_up_vals, drawdowns, n, loop_i, slots, pending>>

\* Evaluation of the per-peak computations in any order, each result placed
\* at its index, and the catalog read off in index order once all are in.
par_start ==
    /\ pc = "built"
    /\ n' = PyMin(Len(cache_down_vals), Len(cache_up_vals))
    /\ pending' = 1..(n' - 1)
    /\ slots' = << >>
    /\ pc' = "par"
    /\ UNCHANGED <<raw, S, cache_down_locs, cache_down_vals, cache_up_locs,
                   cache_up_vals, drawdowns, loop_i>>

par_eval(k) ==
    /\ pc = "par"
    /\ k \in pending
    /\ IF find_drawdown_raises(k)
       THEN /\ pc' = "raised"
            /\ UNCHANGED <<slots, pending>>
       ELSE /\ slots' = [j \in (DOMAIN slots) \cup {k} |->
                            IF j = k THEN find_drawdown(k) ELSE slots[j]]
            /\ pending' = pending \ {k}
            /\ pc' = "par"
    /\ UNCHANGED <<raw, S, cache_down_locs, cache_down_vals, cache_up_locs,
                   cache_up_vals, drawdowns, n, loop_i>>

par_collect ==
    /\ pc = "par"
    /\ pending = {}
    /\ drawdowns' = [k \in 1..(n - 1) |-> slots[k]]
    /\ pc' = "done"
    /\ UNCHANGED <<raw, S, cache_down_locs, cache_down_vals, cache_up_locs,
                   cache_up_vals, n, loop_i, slots, pending>>

Next ==
    \/ Construct
    \/ make_drawdowns
    \/ loop_body
    \/ loop_exit

Spec == Init /\ [][Next]_vars

NextPar ==
    \/ Construct
    \/ par_start
    \/ \E k \in pending : par_eval(k)
    \/ par_collect

SpecPar == Init /\ [][NextPar]_vars

----------------------------------------------------------------------------
\* The Drawdowns produced so far.
Produced == {drawdowns[k] : k \in 1..Len(drawdowns)}

\* C1: every produced Drawdown has start_loc <= peak_loc <= end_loc and
\* duration = end_loc - start_loc >= 0.
C1_BoundariesOrdered ==
    \A d \in Produced :
        /\ d.start_loc <= d.peak_loc
        /\ d.peak_loc <= d.end_loc
        /\ d.duration = d.end_loc - d.start_loc
        /\ d.duration >= 0

\* C2 as stated: magnitude = min(filling, draining), exactly one of filling
\* and draining equals magnitude, start_val = end_val, and the type is
\* filling when magnitude equals filling, draining otherwise.
C2_ExactlyOneLimb ==
    \A d \in Produced :
        /\ d.magnitude = PyMin(d.filling, d.draining)
        /\ (d.filling = d.magnitude) # (d.draining = d.magnitude)
        /\ d.start_val = d.end_val
        /\ d.type = (IF d.magnitude = d.filling THEN "filling" ELSE "draining")

\* C2 amended: magnitude = min(filling, draining); at least one of filling
\* and draining equals magnitude (both on a tie, and the type is then
\* filling); both terminal values equal the limiting limb's value, so that
\* start_val = end_val = peak_val - magnitude; the type is filling when
\* magnitude equals filling, draining otherwise.
C2_LimitingLimb ==
    \A d \in Produced :
        /\ d.magnitude = PyMin(d.filling, d.draining)
        /\ (d.filling = d.magnitude) \/ (d.draining = d.magnitude)
        /\ d.start_val = d.end_val
        /\ d.end_val = d.peak_val - d.magnitude
        /\ d.type = (IF d.magnitude = d.filling THEN "filling" ELSE "draining")
        /\ d.filling = d.peak_val - find_start(d.i).val
        /\ d.draining = d.peak_val - find_end(d.i).val

\* A draining Drawdown with unequal limbs and a filling one with unequal
\* limbs are in the catalog.
C2_Witness ==
    /\ \E d \in Produced : d.type = "draining" /\ d.draining < d.filling
    /\ \E d \in Produced : d.type = "filling" /\ d.filling < d.draining

\* C3: data is the slice of S with duration + 1 elements from S[start_loc]
\* to S[end_loc].
C3_DataSlice ==
    \A d \in Produced :
        /\ Len(d.data) = d.duration + 1
        /\ Len(d.data) >= 1
        /\ \A k \in 1..Len(d.data) : d.data[k] = At(S, d.start_loc + k - 1)
        /\ d.data[1] = At(S, d.start_loc)
        /\ d.data[Len(d.data)] = At(S, d.end_loc)

\* The raw input of the worked scenario, [0, 10, 2, 10, 0].
Worked == <<0, 1000, 200, 1000, 0>>

C5_EmptyWithoutError ==
    (pc # "new" /\ (Len(S) < 3 \/ PyMin(Len(down_locs(S)), Len(up_locs(S))) < 2)) =>
        /\ pc # "raised"
        /\ drawdowns = << >>

\* C6: find_drawdown(i) never raises for an analyzable peak index i.
C6_NeverRaises ==
    (pc = "loop" /\ loop_i < n) => ~find_drawdown_raises(loop_i)

\* C7: the extrema arrays stay what they were computed to be, and the loop
\* ends with exactly one Drawdown per index 1..n-1, in increasing order, each
\* the value of find_drawdown at its index.
C7_OnePerIndex ==
    /\ pc \in {"built", "loop", "par", "done"} =>
          /\ S = Prepend(raw)
          /\ cache_down_locs = down_locs(S) /\ cache_down_vals = down_vals(S)
          /\ cache_up_locs = up_locs(S) /\ cache_up_vals = up_vals(S)
    /\ pc \in {"done", "raised"} =>
          /\ Len(drawdowns) = Cardinality(1..(PyMin(Len(cache_down_vals), Len(cache_up_vals)) - 1))
          /\ \A k \in 1..Len(drawdowns) : drawdowns[k].i = k /\ drawdowns[k] = find_drawdown(k)

\* The part of C7 that does not depend on find_drawdown returning: whenever a
\* catalog is completed, sequentially or from results that arrived in any
\* order, it is the same function of the series.
CatalogDeterministic ==
    pc = "done" =>
        /\ Len(drawdowns) = Cardinality(1..(n - 1))
        /\ \A k \in 1..Len(drawdowns) : drawdowns[k] = find_drawdown(k)

\* C8: the sentinel-prepend step is idempotent, inserts the sentinel exactly
\* when the first element differs from it, and gives a series of length n or
\* n+1 that starts with the sentinel.
C8_PrependIdempotent ==
    /\ Prepend(Prepend(raw)) = Prepend(raw)
    /\ Len(Prepend(raw)) \in {Len(raw), Len(raw) + 1}
    /\ pc # "new" =>
          /\ Prepend(S) = S
          /\ At(S, 0) = Sentinel
          /\ At(raw, 0) # Sentinel => S = <<Sentinel>> \o raw
          /\ At(raw, 0) = Sentinel => S = raw

\* A series that already starts with the sentinel has been through the step.
C8_Witness ==
    pc = "built" /\ Len(raw) >= 2 /\ At(raw, 0) = Sentinel /\ S = raw

\* C9: when S holds a zero strictly between peak_loc and the provisional end,
\* find_end(i) returns the leftmost such zero location and the value 0.
C9_LeftmostZero ==
    (/\ pc = "loop" /\ loop_i < n
     /\ ~provisional_end(loop_i).raised
     /\ zeros_before(loop_i, provisional_end(loop_i).loc) # {}) =>
        find_end(loop_i) =
            [raised |-> FALSE,
             loc    |-> SetMin(zeros_before(loop_i, provisional_end(loop_i).loc)),
             val    |-> 0]

\* C10: a filling Drawdown ends at the smallest location strictly after
\* peak_loc with S <= end_val, where end_val is the start value found; a
\* draining one starts at the largest location strictly before peak_loc with
\* S <= start_val, where start_val is the end value found.
C10_NearestBeyondPeak ==
    \A d \in Produced :
        LET after  == {k \in (d.peak_loc + 1)..(Len(S) - 1) : At(S, k) <= d.end_val}
            before == {k \in 0..(d.peak_loc - 1) : At(S, k) <= d.start_val}
        IN  /\ d.type = "filling" =>
                /\ d.end_val = find_start(d.i).val
                /\ after # {}
                /\ d.end_loc = SetMin(after)
            /\ d.type = "draining" =>
                /\ d.start_val = find_end(d.i).val
                /\ before # {}
                /\ d.start_loc = SetMax(before)

\* Line 259: the indexes below i of the peaks at least as high as peak i.
higher_before(i) ==
    {j \in 0..(i - 1) : At(cache_down_vals, j) >= At(cache_down_vals, i)}

\* C11: in find_start(i), with j the rightmost earlier peak index whose value
\* is >= peak_val, the provisional start is a minimum-valued valley among
\* ValleyPoints[j:i] and its location lies at or after PeakPoints[j]'s and
\* strictly before PeakPoints[i]'s; without such j it is location 0.
C11_LowestTroughBetweenPeaks ==
    (pc = "loop" /\ loop_i < n) =>
        LET p == provisional_start(loop_i)
            j == SetMax(higher_before(loop_i))
        IN  /\ ~p.raised
            /\ higher_before(loop_i) = {} => p.loc = 0
            /\ higher_before(loop_i) # {} =>
                  /\ \E k \in j..(loop_i - 1) :
                        /\ At(cache_up_locs, k) = p.loc
                        /\ \A m \in j..(loop_i - 1) :
                              At(cache_up_vals, k) <= At(cache_up_vals, m)
                  /\ At(cache_down_locs, j) <= p.loc
                  /\ p.loc < At(cache_down_locs, loop_i)

\* C12: for a series of length >= 3, peak locations (synthetic entry
\* included) and valley locations are strictly increasing and valid indexes
\* of S, and no location is both a peak and a valley location.
C12_ExtremaWellFormed ==
    (pc \in {"built", "loop", "done"} /\ Len(S) >= 3) =>
        /\ \A a, b \in 1..Len(cache_down_locs) :
              a < b => cache_down_locs[a] < cache_down_locs[b]
        /\ \A a, b \in 1..Len(cache_up_locs) :
              a < b => cache_up_locs[a] < cache_up_locs[b]
        /\ \A a \in 1..Len(cache_down_locs) : InRange(S, cache_down_locs[a])
        /\ \A a \in 1..Len(cache_up_locs) : InRange(S, cache_up_locs[a])
        /\ \A a \in 1..Len(cache_down_locs), b \in 1..Len(cache_up_locs) :
              cache_down_locs[a] # cache_up_locs[b]

\* C12 amended: for a series of length >= 3, the true peak locations
\* (PeakPoints from index 1 onward) and the valley locations are strictly
\* increasing and valid indexes of S, each true peak is a local maximum and
\* each valley a local minimum of S, and no true peak location is a valley
\* location. The synthetic entry at index 0 is location 1 and is excluded: it
\* may coincide with the first valley or with the first true peak.
C12_TruePeaksWellFormed ==
    (pc \in {"built", "loop", "done"} /\ Len(S) >= 3) =>
        /\ cache_down_locs[1] = 1
        /\ \A a, b \in 2..Len(cache_down_locs) :
              a < b => cache_down_locs[a] < cache_down_locs[b]
        /\ \A a, b \in 1..Len(cache_up_locs) :
              a < b => cache_up_locs[a] < cache_up_locs[b]
        /\ \A a \in 2..Len(cache_down_locs) :
              LET loc == cache_down_locs[a]
              IN  /\ loc >= 1 /\ loc + 1 < Len(S)
                  /\ At(S, loc - 1) < At(S, loc)
                  /\ At(S, loc + 1) <= At(S, loc)
        /\ \A a \in 1..Len(cache_up_locs) :
              LET loc == cache_up_locs[a]
              IN  /\ loc >= 1 /\ loc + 1 < Len(S)
                  /\ At(S, loc - 1) >= At(S, loc)
                  /\ At(S, loc + 1) > At(S, loc)
        /\ \A a \in 2..Len(cache_down_locs), b \in 1..Len(cache_up_locs) :
              cache_down_locs[a] # cache_up_locs[b]

\* A series with two true peaks and two valleys whose first valley is at the
\* synthetic entry's location.
C12_Witness ==
    /\ pc = "built"
    /\ Len(cache_down_locs) >= 3
    /\ Len(cache_up_locs) >= 2
    /\ cache_up_locs[1] = cache_down_locs[1]

\* C13: the boundary values found by find_start and find_end never exceed
\* the peak value, so filling, draining and magnitude are >= 0 in every
\* Drawdown.
C13_NonNegativeLimbs ==
    /\ (pc = "loop" /\ loop_i < n /\ ~find_drawdown_raises(loop_i)) =>
          /\ find_start(loop_i).val <= At(cache_down_vals, loop_i)
          /\ find_end(loop_i).val <= At(cache_down_vals, loop_i)
    /\ \A d \in Produced :
          d.filling >= 0 /\ d.draining >= 0 /\ d.magnitude >= 0

====
